---------------------------- MODULE Spec2Model ----------------------------
(***************************************************************************)
(* Model of elfi/methods/bo/iwvi/models.py: the deep Gaussian process      *)
(* models DGP_VI and DGP_IWVI (layer-stack propagation, the two training   *)
(* objectives and the predictive methods).                                 *)
(*                                                                         *)
(* Tensors are records [shape, at]: `shape` is the sequence of axis sizes  *)
(* and `at` maps every index tuple (1-based) to the element.  The          *)
(* TensorFlow operations the code calls (tile, concat, reshape,            *)
(* reduce_sum, reduce_mean, reduce_logsumexp, matrix_diag_part,            *)
(* transpose, random_normal) are modelled by what they do to the index     *)
(* layout.  Real numbers are exact: integers, rationals [num, den], and,   *)
(* after a log-sum-exp, symbolic sums of logarithms.                       *)
(***************************************************************************)
EXTENDS Integers, Sequences, FiniteSets, TLC

(***************************************************************************)
(* Bounds of the model.                                                    *)
(***************************************************************************)
\* longest layer stack
MaxLayers == 2
\* largest data set (rows of X and Y handed to the constructor)
MaxData == 2
\* largest sample multiplicity (num_samples, and the S of the predictions)
MaxSamples == 2
\* the large target value: squared residuals reach magnitude 1e6
BigY == 1000
\* the likelihood's log-normaliser: log-densities of either sign
LogNorm == 500000

(***************************************************************************)
(* Exact rational arithmetic.                                              *)
(***************************************************************************)
Abs(x) == IF x < 0 THEN -x ELSE x

RECURSIVE Gcd(_, _)
Gcd(a, b) == IF b = 0 THEN a ELSE Gcd(b, a % b)

\* the rational n/d in lowest terms with a positive denominator
Rat(n, d) ==
  LET g == Gcd(Abs(n), Abs(d))
      s == IF d < 0 THEN -1 ELSE 1
  IN  [num |-> (s * n) \div g, den |-> (s * d) \div g]

RInt(i) == [num |-> i, den |-> 1]
RAdd(p, q) == Rat(p.num * q.den + q.num * p.den, p.den * q.den)
RNeg(p) == [num |-> -p.num, den |-> p.den]
RSub(p, q) == RAdd(p, RNeg(q))
RMul(p, q) == Rat(p.num * q.num, p.den * q.den)
RDiv(p, q) == Rat(p.num * q.den, p.den * q.num)

(***************************************************************************)
(* Tensors.                                                                *)
(***************************************************************************)
RECURSIVE Indices(_)
Indices(shape) ==
  IF shape = <<>> THEN {<<>>}
  ELSE {<<i>> \o r : i \in 1..Head(shape), r \in Indices(Tail(shape))}

Rank(t) == Len(t.shape)

\* a scalar (rank 0) tensor
Scalar(v) == [shape |-> <<>>, at |-> [ix \in {<<>>} |-> v]]

\* all axes of an index tuple but the last
Lead(ix) == SubSeq(ix, 1, Len(ix) - 1)
Last(ix) == ix[Len(ix)]

\* row-major position (0-based) of an index tuple in a tensor of this shape
RECURSIVE Lin(_, _)
Lin(ix, shape) ==
  IF ix = <<>> THEN 0
  ELSE Lin(Lead(ix), Lead(shape)) * Last(shape) + (Last(ix) - 1)

RECURSIVE SumTo(_, _)
\* f[1] + ... + f[n]
SumTo(f, n) == IF n = 0 THEN 0 ELSE SumTo(f, n - 1) + f[n]

RECURSIVE RSumTo(_, _)
RSumTo(f, n) == IF n = 0 THEN RInt(0) ELSE RAdd(RSumTo(f, n - 1), f[n])

RECURSIVE Prod(_)
Prod(s) == IF s = <<>> THEN 1 ELSE Head(s) * Prod(Tail(s))

\* the index tuple with position a removed / with value v inserted at position a
Without(ix, a) == SubSeq(ix, 1, a - 1) \o SubSeq(ix, a + 1, Len(ix))
InsertAt(ix, a, v) == SubSeq(ix, 1, a - 1) \o <<v>> \o SubSeq(ix, a, Len(ix))

\* tf.shape(t)[axis], axis counted from 1
Dim(t, a) == t.shape[a]

\* tf.tile(t, multiples): the whole tensor repeated multiples[a] times along axis a
Tile(t, multiples) ==
  LET shp == [a \in 1..Rank(t) |-> t.shape[a] * multiples[a]]
  IN  [shape |-> shp,
       at |-> [ix \in Indices(shp) |->
                 t.at[[a \in 1..Rank(t) |-> ((ix[a] - 1) % t.shape[a]) + 1]]]]

\* t[:, None, :] and t[None, :, :]: a new axis of size 1 at position a
ExpandDims(t, a) ==
  LET shp == InsertAt(t.shape, a, 1)
  IN  [shape |-> shp, at |-> [ix \in Indices(shp) |-> t.at[Without(ix, a)]]]

\* tf.concat([s, t], -1)
Concat2(s, t) ==
  LET r == Rank(s)
      shp == [s.shape EXCEPT ![r] = s.shape[r] + t.shape[r]]
  IN  [shape |-> shp,
       at |-> [ix \in Indices(shp) |->
                 IF ix[r] <= s.shape[r] THEN s.at[ix]
                 ELSE t.at[[ix EXCEPT ![r] = ix[r] - s.shape[r]]]]]

RECURSIVE ConcatLast(_)
\* tf.concat(ts, -1) of a non-empty list
ConcatLast(ts) ==
  IF Len(ts) = 1 THEN ts[1] ELSE Concat2(ConcatLast(Lead(ts)), Last(ts))

\* tf.reduce_sum(t, axis) of an integer tensor, axis counted from 1
ReduceSum(t, a) ==
  LET shp == Without(t.shape, a)
  IN  [shape |-> shp,
       at |-> [ix \in Indices(shp) |->
                 SumTo([j \in 1..t.shape[a] |-> t.at[InsertAt(ix, a, j)]], t.shape[a])]]

\* tf.reduce_sum(t) of a rational tensor over all its elements
RReduceSumAll(t) ==
  LET n == Prod(t.shape)
      flat == [k \in 1..n |-> t.at[CHOOSE ix \in DOMAIN t.at : Lin(ix, t.shape) = k - 1]]
  IN  RSumTo(flat, n)

\* tf.reshape(t, shp): same row-major element order
Reshape(t, shp) ==
  [shape |-> shp,
   at |-> [ix \in Indices(shp) |->
             t.at[CHOOSE jx \in DOMAIN t.at : Lin(jx, t.shape) = Lin(ix, shp)]]]

\* tf.matrix_diag_part(t): [..., K, K] -> [..., K]
MatrixDiagPart(t) ==
  LET shp == Lead(t.shape)
  IN  [shape |-> shp, at |-> [ix \in Indices(shp) |-> t.at[ix \o <<Last(ix)>>]]]

\* tf.transpose(t, perm): axis a of the result is axis perm[a] of t (perm 1-based)
Transpose(t, perm) ==
  LET shp == [a \in 1..Rank(t) |-> t.shape[perm[a]]]
  IN  [shape |-> shp,
       at |-> [ix \in Indices(shp) |->
                 t.at[[b \in 1..Rank(t) |-> ix[CHOOSE a \in 1..Rank(t) : perm[a] = b]]]]]

\* elementwise a - b of integer tensors of one shape
TSub(s, t) == [shape |-> s.shape, at |-> [ix \in DOMAIN s.at |-> s.at[ix] - t.at[ix]]]


(***************************************************************************)
(* Python's None, and the enumeration RegularizerType of layers.py.        *)
(***************************************************************************)
None == [none |-> TRUE]
IsNone(t) == "none" \in DOMAIN t

LOCAL_T == "LOCAL"
GLOBAL_T == "GLOBAL"
RegularizerType == {LOCAL_T, GLOBAL_T}

(***************************************************************************)
(* The random state of the TensorFlow graph.  No seed is given to the      *)
(* sampling operations, so every draw reads and advances this state.       *)
(***************************************************************************)
RngStates == {0, 1}
NextRng(r) == 1 - r
\* the k-th standard-normal variate drawn in state r (two-valued here)
Draw(r, k) == IF (r + k) % 2 = 0 THEN -1 ELSE 1

(***************************************************************************)
(* A layer (elfi.methods.bo.iwvi.layers), by its contract: a row-wise      *)
(* stochastic map with a static regularizer kind.  A layer is a record     *)
(* [regularizer_type, input_dim, output_dim].                              *)
(***************************************************************************)
RowSum(t, lead) == SumTo([j \in 1..Last(t.shape) |-> t.at[lead \o <<j>>]], Last(t.shape))

LayerMean(layer, F) ==
  LET shp == Lead(F.shape) \o <<layer.output_dim>>
  IN  [shape |-> shp, at |-> [ix \in Indices(shp) |-> RowSum(F, Lead(ix)) + Last(ix)]]

LayerSample(layer, F, rng) ==
  LET m == LayerMean(layer, F)
  IN  [shape |-> m.shape,
       at |-> [ix \in DOMAIN m.at |-> m.at[ix] + Draw(rng, Lin(ix, m.shape))]]

\* full_cov = FALSE: the marginal variances, shaped like the mean;
\* full_cov = TRUE: [..., K, D] -> [..., D, K, K], coupling the last leading axis
LayerCov(layer, F, full_cov) ==
  IF ~full_cov
  THEN LET shp == Lead(F.shape) \o <<layer.output_dim>>
       IN  [shape |-> shp, at |-> [ix \in Indices(shp) |-> 1]]
  ELSE LET r == Rank(F)
           k == F.shape[r - 1]
           shp == SubSeq(F.shape, 1, r - 2) \o <<layer.output_dim, k, k>>
       IN  [shape |-> shp,
            at |-> [ix \in Indices(shp) |-> IF ix[r] = ix[r + 1] THEN 2 ELSE 1]]

\* LOCAL: one term per row (a trailing axis of width 1): the exact KL, or with
\* is_sampled_local_regularizer the log-ratio at the drawn sample.
\* GLOBAL: one scalar.
LayerRegularizer(layer, F, side, sampled, rng) ==
  IF layer.regularizer_type = GLOBAL_T
  THEN Scalar(layer.input_dim + layer.output_dim)
  ELSE LET shp == Lead(F.shape) \o <<1>>
           base(lead) == IF IsNone(side) THEN 0 ELSE RowSum(side, lead) % 3
       IN  [shape |-> shp,
            at |-> [ix \in Indices(shp) |->
                      IF sampled THEN base(Lead(ix)) + Draw(rng, Lin(ix, shp))
                      ELSE 1 + base(Lead(ix))]]

\* layer.propagate(F, full_cov, inference_amorization_inputs, is_sampled_local_regularizer)
LayerPropagate(layer, F, full_cov, side, sampled, rng) ==
  IF Last(F.shape) # layer.input_dim
  THEN [err |-> "shape_mismatch"]
  ELSE [err |-> "none",
        sample |-> LayerSample(layer, F, rng),
        mean |-> LayerMean(layer, F),
        cov |-> LayerCov(layer, F, full_cov),
        kl |-> LayerRegularizer(layer, F, side, sampled, rng)]

(***************************************************************************)
(* The likelihood (a Gaussian), by its contract.                           *)
(***************************************************************************)
\* likelihood.variational_expectations(Fmu, Fvar, Y), elementwise
VariationalExpectations(Fmu, Fvar, Y) ==
  [shape |-> Fmu.shape,
   at |-> [ix \in DOMAIN Fmu.at |->
             LogNorm - (Y.at[ix] - Fmu.at[ix]) * (Y.at[ix] - Fmu.at[ix]) - Fvar.at[ix]]]

\* likelihood.predict_mean_and_var(Fmu, Fvar): the observation noise (3) is added
PredictMeanAndVar(Fmu, Fvar) ==
  [m |-> Fmu,
   v |-> [shape |-> Fvar.shape, at |-> [ix \in DOMAIN Fvar.at |-> Fvar.at[ix] + 3]]]

\* v ** 0.5 on the perfect squares the model produces
Sqrt(v) == CHOOSE r \in 0..v : r * r = v

(***************************************************************************)
(* DGP_VI.propagate.                                                       *)
(***************************************************************************)
\* What one iteration of the loop over self.layers appends, given the value o
\* that layer i returned for the input inp = samples[-1].
PropagateAppend(layers, i, acc, inp, full_cov, side, sampled, o) ==
  LET call == [layer |-> i, input |-> inp, full_cov |-> full_cov,
               inference_amorization_inputs |-> side,
               is_sampled_local_regularizer |-> sampled, out |-> o]
  IN  IF o.err # "none"
      THEN [acc EXCEPT !.err = o.err, !.calls = Append(@, call)]
      ELSE [samples |-> Append(acc.samples, o.sample),
            means |-> Append(acc.means, o.mean),
            covs |-> Append(acc.covs, o.cov),
            kls |-> Append(acc.kls, o.kl),
            kl_types |-> Append(acc.kl_types, layers[i].regularizer_type),
            calls |-> Append(acc.calls, call),
            rng |-> NextRng(acc.rng),
            err |-> "none"]

\* the input handed to the next layer: samples[-1]
LayerInput(acc) == Last(acc.samples)

\* the call of layer i on the input inp = samples[-1], and the appends
PropagateCall(layers, i, acc, inp, full_cov, side, sampled) ==
  PropagateAppend(layers, i, acc, inp, full_cov, side, sampled,
                  LayerPropagate(layers[i], inp, full_cov, side, sampled, acc.rng))

\* an iteration that calls the layer with the sampled-regularizer flag off,
\* whatever the caller asked for
PropagateLayerUnsampled(layers, i, acc, full_cov, side, sampled) ==
  PropagateCall(layers, i, acc, LayerInput(acc), full_cov, side, FALSE)

\* One iteration of the loop over self.layers.
PropagateLayer(layers, i, acc, full_cov, side, sampled) ==
  PropagateCall(layers, i, acc, LayerInput(acc), full_cov, side, sampled)

\* the iteration for layer i, not reached when an earlier layer raised
PropagateStep(layers, i, acc, full_cov, side, sampled) ==
  IF acc.err # "none" THEN acc
  ELSE PropagateLayer(layers, i, acc, full_cov, side, sampled)

RECURSIVE PropagateLoop(_, _, _, _, _, _)
\* the state of the loop after layers 1..i
PropagateLoop(layers, i, acc0, full_cov, side, sampled) ==
  IF i = 0 THEN acc0
  ELSE PropagateStep(layers, i,
                     PropagateLoop(layers, i - 1, acc0, full_cov, side, sampled),
                     full_cov, side, sampled)

\* a propagate that returns the whole list, the caller's input included
KeepInput(samples) == samples

\* samples[1:]
DropInput(samples) == Tail(samples)

\* samples, means, covs, kls, kl_types = [X, ], [], [], [], []
PropagateStart(X, rng) ==
  [samples |-> <<X>>, means |-> <<>>, covs |-> <<>>, kls |-> <<>>,
   kl_types |-> <<>>, calls |-> <<>>, rng |-> rng, err |-> "none"]

\* return samples[1:], means, covs, kls, kl_types
PropagateReturn(acc) == [acc EXCEPT !.samples = DropInput(acc.samples)]

propagate(layers, X, full_cov, side, sampled, rng) ==
  PropagateReturn(PropagateLoop(layers, Len(layers), PropagateStart(X, rng),
                                full_cov, side, sampled))

(***************************************************************************)
(* Floating point: the element type gpflow.settings.float_type, and where  *)
(* exp leaves its range.                                                   *)
(***************************************************************************)
FloatTypes == {"float32", "float64"}
\* exp(x) is +inf above ExpMax and 0 below ExpMin
ExpMax(float_type) == IF float_type = "float64" THEN 709 ELSE 88
ExpMin(float_type) == IF float_type = "float64" THEN -745 ELSE -103

\* tf.reduce_sum(list of scalars): an empty Python list becomes a float32
\* tensor (TensorFlow's default for a list that carries no dtype)
ReduceSumList(ts, float_type) ==
  IF ts = <<>> THEN [dtype |-> "float32", val |-> RInt(0)]
  ELSE [dtype |-> float_type,
        val |-> RInt(SumTo([i \in 1..Len(ts) |-> ts[i].at[<<>>]], Len(ts)))]

\* the elements of a list whose kind is t
RECURSIVE OfType(_, _, _)
OfType(kls, kl_types, t) ==
  IF kls = <<>> THEN <<>>
  ELSE LET rest == OfType(Lead(kls), Lead(kl_types), t)
       IN  IF Last(kl_types) = t THEN Append(rest, Last(kls)) ELSE rest

\* tf.cast(num_data, float_type) / tf.cast(tf.shape(X)[0], float_type)
MinibatchScale(num_data, X) == RDiv(RInt(num_data), RInt(Dim(X, 1)))

\* the elements of an integer tensor divided by n: a rational tensor
DivideBy(t, n) ==
  [shape |-> t.shape, at |-> [ix \in DOMAIN t.at |-> Rat(t.at[ix], n)]]

\* tf.reduce_mean(t, 0) of an integer matrix: a rational vector
ReduceMean0(t) == DivideBy(ReduceSum(t, 1), t.shape[1])

(***************************************************************************)
(* DGP_VI._build_likelihood.  X and Y are the values of self.X and self.Y  *)
(* (the whole data, or the current minibatch).                             *)
(***************************************************************************)
\* tf.reduce_sum(t, -1)
ReduceSumLast(t) == ReduceSum(t, Rank(t))

\* L_S_N after the LOCAL regularizers are subtracted (when there are any):
\* concat on the last axis, reduce_sum over it, reshape to (S, N), subtract
VI_SubtractLocal(L_S_N, local_kls, shape_S_N) ==
  IF Len(local_kls) > 0
  THEN TSub(L_S_N, Reshape(ReduceSumLast(ConcatLast(local_kls)), shape_S_N))
  ELSE L_S_N

\* a return statement that scales the whole difference:
\* (tf.reduce_sum(logp) - tf.reduce_sum(global_kls)) * scale
VI_ResultScaledAll(logp, scale, global_kls, float_type) ==
  LET g == ReduceSumList(global_kls, float_type)
  IN  IF g.dtype # float_type THEN [err |-> "TypeError", ret |-> RInt(0)]
      ELSE [err |-> "none", ret |-> RMul(RSub(RReduceSumAll(logp), g.val), scale)]

\* tf.reduce_sum(logp) * scale - tf.reduce_sum(global_kls) on rationals; the
\* subtraction raises when its operands differ in dtype
VI_Result(logp, scale, global_kls, float_type) ==
  LET g == ReduceSumList(global_kls, float_type)
  IN  IF g.dtype # float_type THEN [err |-> "TypeError", ret |-> RInt(0)]
      ELSE [err |-> "none", ret |-> RSub(RMul(RReduceSumAll(logp), scale), g.val)]

VI_X_tiled(X, num_samples) == Tile(X, <<num_samples, 1>>)

\* a reshape to (N, S) read as (S, N): the replicas of one point land in one row
VI_L_S_N_PointMajor(L_SN, shape_S_N) ==
  Transpose(Reshape(L_SN, <<shape_S_N[2], shape_S_N[1]>>), <<2, 1>>)

VI_L_S_N(L_SN, shape_S_N) == Reshape(L_SN, shape_S_N)

\* a reduction that sums over the sample axis instead of averaging
VI_logp_Sum(L_S_N) == DivideBy(ReduceSum(L_S_N, 1), 1)

VI_logp(L_S_N) == ReduceMean0(L_S_N)

\* The method, statement by statement.  Each step takes the record l of the
\* locals assigned so far and adds the locals its statement assigns.

\* X_tiled = tf.tile(self.X, [self.num_samples, 1]), and Y_tiled likewise
VI_Tile(s, X, Y) ==
  [X |-> X, Y |-> Y,
   X_tiled |-> VI_X_tiled(X, s.num_samples),
   Y_tiled |-> VI_X_tiled(Y, s.num_samples)]

\* XY_tiled = tf.concat([X_tiled, Y_tiled], -1)
VI_Concat(l) == l @@ [XY |-> Concat2(l.X_tiled, l.Y_tiled)]

\* self.propagate(X_tiled, full_cov=False, inference_amorization_inputs=XY_tiled,
\*                is_sampled_local_regularizer=False)
VI_Propagate(s, l, r0) ==
  l @@ [prop |-> propagate(s.layers, l.X_tiled, FALSE, l.XY, FALSE, r0)]

\* the two list comprehensions over zip(kls, kl_types)
VI_Filter(l) ==
  l @@ [local_kls |-> OfType(l.prop.kls, l.prop.kl_types, LOCAL_T),
        global_kls |-> OfType(l.prop.kls, l.prop.kl_types, GLOBAL_T)]

\* var_exp = self.likelihood.variational_expectations(Fmeans[-1], Fvars[-1], Y_tiled)
VI_VarExp(l) ==
  l @@ [var_exp |-> VariationalExpectations(Last(l.prop.means), Last(l.prop.covs),
                                            l.Y_tiled)]

\* L_SN = tf.reduce_sum(var_exp, -1); shape_S_N = [num_samples, tf.shape(self.X)[0]]
VI_Sum(s, l) ==
  l @@ [L_SN |-> ReduceSumLast(l.var_exp),
        shape_S_N |-> <<s.num_samples, Dim(l.X, 1)>>]

\* L_S_N = tf.reshape(L_SN, shape_S_N)
VI_Reshape(l) == l @@ [L_S_N_0 |-> VI_L_S_N(l.L_SN, l.shape_S_N)]

\* if len(local_kls) > 0: ... L_S_N -= local_kls_S_N
VI_Local(l) == l @@ [L_S_N |-> VI_SubtractLocal(l.L_S_N_0, l.local_kls, l.shape_S_N)]

\* scale = num_data / tf.shape(self.X)[0]; logp = tf.reduce_mean(L_S_N, 0)
VI_Mean(s, l) ==
  l @@ [scale |-> MinibatchScale(s.num_data, l.X), logp |-> VI_logp(l.L_S_N)]

\* return tf.reduce_sum(logp) * scale - tf.reduce_sum(global_kls)
VI_Return(ftype, l) ==
  l @@ [res |-> VI_Result(l.logp, l.scale, l.global_kls, ftype)]

\* what the call leaves behind: the layer invocations, the random state, the
\* locals, and the returned value ret or the raised error err
Outcome(l) ==
  IF l.prop.err # "none"
  THEN [err |-> l.prop.err, calls |-> l.prop.calls, rng |-> l.prop.rng]
  ELSE l @@ [err |-> l.res.err, ret |-> l.res.ret,
             calls |-> l.prop.calls, rng |-> l.prop.rng]

\* the statements after self.propagate (not reached when a layer raised)
VI_AfterPropagate(s, ftype, l) ==
  IF l.prop.err # "none" THEN l
  ELSE VI_Return(ftype, VI_Mean(s, VI_Local(VI_Reshape(VI_Sum(s,
         VI_VarExp(VI_Filter(l)))))))

VI_build_likelihood(s, X, Y, ftype, r0) ==
  Outcome(VI_AfterPropagate(s, ftype,
            VI_Propagate(s, VI_Concat(VI_Tile(s, X, Y)), r0)))

(***************************************************************************)
(* Values in the log domain.  After a log-sum-exp a value is               *)
(*   lin + coef * (SUM_i log(SUM_e logs[i][e] * exp(e)) - nlog.count * log(nlog.arg)) *)
(* with lin, coef rational; cls tells whether floating point kept it       *)
(* finite.                                                                 *)
(***************************************************************************)
MaxOf(vals) == CHOOSE m \in {vals[k] : k \in DOMAIN vals} : \A k \in DOMAIN vals : vals[k] <= m

\* log(sum_k exp(vals[k] - shift)) + shift, as floating point evaluates it
LogSumExpShifted(vals, shift, float_type) ==
  LET d == [k \in DOMAIN vals |-> vals[k] - shift]
      over == \E k \in DOMAIN d : d[k] > ExpMax(float_type)
      kept == {d[k] : k \in {j \in DOMAIN d : d[j] >= ExpMin(float_type)}}
      cls == IF over THEN "+inf" ELSE IF kept = {} THEN "-inf" ELSE "finite"
  IN  [cls |-> cls,
       lin |-> RInt(shift),
       coef |-> RInt(1),
       logs |-> IF cls = "finite"
                THEN <<[e \in kept |-> Cardinality({k \in DOMAIN d : d[k] = e})]>>
                ELSE <<>>,
       nlog |-> [count |-> 0, arg |-> 1]]

\* one row of tf.reduce_logsumexp: the row maximum is subtracted before
\* exponentiating and added back after the logarithm
LogSumExpRow(vals, float_type) == LogSumExpShifted(vals, MaxOf(vals), float_type)

\* tf.reduce_logsumexp(L_NK, 1): one log-domain value per data point
ReduceLogSumExp1(L_NK, float_type) ==
  [n \in 1..L_NK.shape[1] |->
     LogSumExpRow([k \in 1..L_NK.shape[2] |-> L_NK.at[<<n, k>>]], float_type)]

\* v - np.log(K)
LVSubLog(v, K) == [v EXCEPT !.nlog = [count |-> v.nlog.count + 1, arg |-> K]]

LVClsAdd(a, b) ==
  IF a = "nan" \/ b = "nan" THEN "nan"
  ELSE IF a = "finite" THEN b
  ELSE IF b = "finite" \/ a = b THEN a
  ELSE "nan"

RECURSIVE LVSum(_, _)
\* tf.reduce_sum of a vector vs[1..n] of log-domain values (each of coef 1)
LVSum(vs, n) ==
  IF n = 0
  THEN [cls |-> "finite", lin |-> RInt(0), coef |-> RInt(1), logs |-> <<>>,
        nlog |-> [count |-> 0, arg |-> 1]]
  ELSE LET r == LVSum(vs, n - 1)
       IN  [cls |-> LVClsAdd(r.cls, vs[n].cls),
            lin |-> RAdd(r.lin, vs[n].lin),
            coef |-> RInt(1),
            logs |-> r.logs \o vs[n].logs,
            nlog |-> [count |-> r.nlog.count + vs[n].nlog.count, arg |-> vs[n].nlog.arg]]

\* v * scale (scale > 0) and v - r
LVScale(v, scale) == [v EXCEPT !.lin = RMul(@, scale), !.coef = RMul(@, scale)]
LVSubRat(v, r) == [v EXCEPT !.lin = RSub(@, r)]

(***************************************************************************)
(* DGP_IWVI._build_likelihood.                                             *)
(***************************************************************************)
IWVI_X_tiled(X, num_samples) == Tile(ExpandDims(X, 2), <<1, num_samples, 1>>)

\* tf.transpose(tf.matrix_diag_part(cov), [0, 2, 1]): N,Dy,K,K -> N,K,Dy
IWVI_cov_diag(cov) == Transpose(MatrixDiagPart(cov), <<1, 3, 2>>)

IWVI_SubtractLocal(L_NK, local_kls) ==
  IF Len(local_kls) > 0
  THEN TSub(L_NK, ReduceSum(ConcatLast(local_kls), 3))
  ELSE L_NK

\* the unshifted reduction tf.log(tf.reduce_sum(tf.exp(L_NK), 1)) - np.log(K)
IWVI_logp_Naive(L_NK, num_samples, float_type) ==
  [n \in 1..L_NK.shape[1] |->
     LVSubLog(LogSumExpShifted([k \in 1..L_NK.shape[2] |-> L_NK.at[<<n, k>>]], 0,
                               float_type),
              num_samples)]

\* tf.reduce_logsumexp(L_NK, 1) - np.log(self.num_samples)
IWVI_logp(L_NK, num_samples, float_type) ==
  LET lse == ReduceLogSumExp1(L_NK, float_type)
  IN  [n \in DOMAIN lse |-> LVSubLog(lse[n], num_samples)]

\* tf.reduce_sum(logp) * scale - tf.reduce_sum(global_kls)
IWVI_Result(logp, scale, global_kls, float_type) ==
  LET g == ReduceSumList(global_kls, float_type)
  IN  IF g.dtype # float_type
      THEN [err |-> "TypeError", ret |-> LVSum(<<>>, 0)]
      ELSE [err |-> "none",
            ret |-> LVSubRat(LVScale(LVSum(logp, Len(logp)), scale), g.val)]

\* X_tiled = tf.tile(self.X[:, None, :], [1, self.num_samples, 1]), and Y_tiled
IWVI_Tile(s, X, Y) ==
  [X |-> X, Y |-> Y,
   X_tiled |-> IWVI_X_tiled(X, s.num_samples),
   Y_tiled |-> IWVI_X_tiled(Y, s.num_samples)]

\* XY_tiled = tf.concat([X_tiled, Y_tiled], -1)
IWVI_Concat(l) == l @@ [XY |-> Concat2(l.X_tiled, l.Y_tiled)]

\* self.propagate(X_tiled, full_cov=True, inference_amorization_inputs=XY_tiled,
\*                is_sampled_local_regularizer=True)
IWVI_Propagate(s, l, r0) ==
  l @@ [prop |-> propagate(s.layers, l.X_tiled, TRUE, l.XY, TRUE, r0)]

\* the two list comprehensions over zip(kls, kl_types)
IWVI_Filter(l) ==
  l @@ [local_kls |-> OfType(l.prop.kls, l.prop.kl_types, LOCAL_T),
        global_kls |-> OfType(l.prop.kls, l.prop.kl_types, GLOBAL_T)]

\* cov_diag, then var_exp = variational_expectations(means[-1], cov_diag, Y_tiled)
IWVI_CovDiag(l) == l @@ [cov_diag |-> IWVI_cov_diag(Last(l.prop.covs))]

IWVI_VarExp(l) ==
  l @@ [var_exp |-> VariationalExpectations(Last(l.prop.means), l.cov_diag, l.Y_tiled)]

\* L_NK = tf.reduce_sum(var_exp, 2)
IWVI_Sum(l) == l @@ [L_NK_0 |-> ReduceSum(l.var_exp, 3)]

\* if len(local_kls) > 0: L_NK -= tf.reduce_sum(local_kls_NKD, 2)
IWVI_Local(l) == l @@ [L_NK |-> IWVI_SubtractLocal(l.L_NK_0, l.local_kls)]

\* scale, and logp = tf.reduce_logsumexp(L_NK, 1) - np.log(self.num_samples)
IWVI_LogMean(s, ftype, l) ==
  l @@ [scale |-> MinibatchScale(s.num_data, l.X),
        logp |-> IWVI_logp(l.L_NK, s.num_samples, ftype)]

\* return tf.reduce_sum(logp) * scale - tf.reduce_sum(global_kls)
IWVI_Return(ftype, l) ==
  l @@ [res |-> IWVI_Result(l.logp, l.scale, l.global_kls, ftype)]

\* the statements after self.propagate (not reached when a layer raised)
IWVI_AfterPropagate(s, ftype, l) ==
  IF l.prop.err # "none" THEN l
  ELSE IWVI_Return(ftype, IWVI_LogMean(s, ftype, IWVI_Local(IWVI_Sum(
         IWVI_VarExp(IWVI_CovDiag(IWVI_Filter(l)))))))

IWVI_build_likelihood(s, X, Y, ftype, r0) ==
  Outcome(IWVI_AfterPropagate(s, ftype,
            IWVI_Propagate(s, IWVI_Concat(IWVI_Tile(s, X, Y)), r0)))

(***************************************************************************)
(* The predictive methods of DGP_VI (inherited by DGP_IWVI).               *)
(***************************************************************************)
\* what a method leaves behind when a layer raised during propagation
Raised(p) == [err |-> p.err, calls |-> p.calls, rng |-> p.rng]

\* return fs[-1], means[-1], covs[-1]
PredictReturn(p) ==
  IF p.err # "none" THEN Raised(p)
  ELSE [err |-> "none", calls |-> p.calls, rng |-> p.rng, prop |-> p,
        ret |-> <<Last(p.samples), Last(p.means), Last(p.covs)>>]

build_predict(s, X, full_cov, r0) ==
  PredictReturn(propagate(s.layers, X, full_cov, None, FALSE, r0))

\* a return that keeps only the last layer's covariance in the list
DecompReturnLastOnly(p) ==
  IF p.err # "none" THEN Raised(p)
  ELSE [err |-> "none", calls |-> p.calls, rng |-> p.rng, prop |-> p,
        ret |-> <<Last(p.samples), Last(p.means), <<Last(p.covs)>>>>]

\* return fs[-1], means[-1], covs
DecompReturn(p) ==
  IF p.err # "none" THEN Raised(p)
  ELSE [err |-> "none", calls |-> p.calls, rng |-> p.rng, prop |-> p,
        ret |-> <<Last(p.samples), Last(p.means), p.covs>>]

build_predict_decomp(s, X, full_cov, r0) ==
  DecompReturn(propagate(s.layers, X, full_cov, None, FALSE, r0))

\* tf.tile(X[None, :, :], [S, 1, 1])
Pred_X_tiled(X, S) == Tile(ExpandDims(X, 1), <<S, 1, 1>>)

\* return means[-1], covs[-1]
MultisampleReturn(X_tiled, p) ==
  IF p.err # "none" THEN Raised(p)
  ELSE [err |-> "none", calls |-> p.calls, rng |-> p.rng, prop |-> p,
        X_tiled |-> X_tiled,
        ret |-> <<Last(p.means), Last(p.covs)>>]

\* _, means, covs, _, _ = self.propagate(X_tiled)
PredictFPropagate(s, X_tiled, r0) ==
  MultisampleReturn(X_tiled, propagate(s.layers, X_tiled, FALSE, None, FALSE, r0))

predict_f_multisample(s, X, S, r0) == PredictFPropagate(s, Pred_X_tiled(X, S), r0)

\* tf.random_normal(shape, dtype): no seed argument, so the variates come from
\* the graph's random state
RandomNormal(shape, r0) ==
  [shape |-> shape, at |-> [ix \in Indices(shape) |-> Draw(r0, Lin(ix, shape))]]

\* m + z * v**0.5
PredictiveDraw(mv, z) ==
  [shape |-> mv.m.shape,
   at |-> [ix \in DOMAIN mv.m.at |-> mv.m.at[ix] + z.at[ix] * Sqrt(mv.v.at[ix])]]

\* return m + z * v**0.5, the draw of z having advanced the random state
SamplesReturn(X_tiled, p, mv, z) ==
  [err |-> "none", calls |-> p.calls, rng |-> NextRng(p.rng), prop |-> p,
   X_tiled |-> X_tiled, z |-> z, ret |-> PredictiveDraw(mv, z)]

\* m, v = self.likelihood.predict_mean_and_var(means[-1], covs[-1]); z = ...
SamplesDraw(X_tiled, p) ==
  IF p.err # "none" THEN Raised(p)
  ELSE SamplesReturn(X_tiled, p, PredictMeanAndVar(Last(p.means), Last(p.covs)),
                     RandomNormal(Last(p.means).shape, p.rng))

\* _, means, covs, _, _ = self.propagate(X_tiled)
PredictYPropagate(s, X_tiled, r0) ==
  SamplesDraw(X_tiled, propagate(s.layers, X_tiled, FALSE, None, FALSE, r0))

predict_y_samples(s, X, S, r0) == PredictYPropagate(s, Pred_X_tiled(X, S), r0)

(***************************************************************************)
(* The state: the model object `self`, the global float type, the graph's  *)
(* random state, and the last method run (its name, arguments and what it  *)
(* computed: locals, layer invocations, return value or error).            *)
(***************************************************************************)
VARIABLES self, float_type, rng, op, args, out

vars == <<self, float_type, rng, op, args, out>>

\* DGP_VI.__init__ (minibatch_size 0 stands for None): nothing is validated
DGP_init(cls, X, Y, layers, num_samples, minibatch_size) ==
  [cls |-> cls,
   num_data |-> Dim(X, 1),
   num_samples |-> num_samples,
   X |-> X,
   Y |-> Y,
   minibatch_size |-> minibatch_size,
   layers |-> layers]

\* the value of self.X / self.Y when the objective is evaluated: the data
\* holder's whole array, or the minibatch iterator's current batch (the
\* same rows of X and Y, both iterators having seed 0)
Batch(data, minibatch_size, start) ==
  IF minibatch_size = 0 THEN data
  ELSE [shape |-> <<minibatch_size, data.shape[2]>>,
        at |-> [ix \in Indices(<<minibatch_size, data.shape[2]>>) |->
                  data.at[<<((start + ix[1] - 2) % data.shape[1]) + 1, ix[2]>>]]]

BatchStarts(s) == IF s.minibatch_size = 0 THEN {1} ELSE 1..s.num_data

(***************************************************************************)
(* The inputs the constructor is given.                                    *)
(***************************************************************************)
\* inputs: n points of one feature, point i having the value i
XData(n) == [shape |-> <<n, 1>>, at |-> [ix \in Indices(<<n, 1>>) |-> ix[1]]]

\* targets of two output dimensions, small or large per point
YData(n) ==
  {[shape |-> <<n, 2>>, at |-> [ix \in Indices(<<n, 2>>) |-> y[ix[1]] + ix[2] - 1]] :
     y \in [1..n -> {0, BigY}]}

\* layer stacks over inputs of 1 feature and targets of 2: hidden layers have
\* one output, the last layer two, and every layer declares one input
ValidStacks ==
  UNION {
    {[i \in 1..len |->
        [regularizer_type |-> kind[i],
         input_dim |-> 1,
         output_dim |-> IF i = len THEN 2 ELSE 1]] :
       kind \in [1..len -> RegularizerType]}
    : len \in 1..MaxLayers}

\* the same stacks with the last layer declaring two inputs, which disagrees
\* with the layer before it
MismatchedStacks ==
  {[st EXCEPT ![Len(st)].input_dim = 2] : st \in {v \in ValidStacks : Len(v) > 1}}

LayerStacks == ValidStacks \cup MismatchedStacks

\* some layer's declared input dimensionality is not the output
\* dimensionality of the layer before it
StackMismatch(layers) ==
  \E i \in 2..Len(layers) : layers[i].input_dim # layers[i - 1].output_dim

Classes == {"DGP_VI", "DGP_IWVI"}

\* a constructed model: any stack (nothing is validated), the whole data held
\* (no minibatching), targets small
Init ==
  /\ \E cls \in Classes, n \in 1..MaxData, layers \in LayerStacks,
        S \in 1..MaxSamples :
       self = DGP_init(cls, XData(n), CHOOSE Y \in YData(n) : Y.at[<<1, 1>>] = 0
                                                      /\ Y.at[<<n, 1>>] = 0, layers, S, 0)
  /\ float_type = "float64"
  /\ rng \in RngStates
  /\ op = "__init__"
  /\ args = <<>>
  /\ out = [err |-> "none", calls |-> <<>>, rng |-> rng, rng0 |-> rng]

\* a constructed model for training: a well-formed stack, any targets, any
\* minibatch size below the data size (or none), either float type
ObjectiveInit ==
  /\ \E cls \in Classes, n \in 1..MaxData, layers \in ValidStacks,
        S \in 1..MaxSamples :
       \E Y \in YData(n), mb \in 0..(n - 1) :
         self = DGP_init(cls, XData(n), Y, layers, S, mb)
  /\ float_type \in FloatTypes
  /\ rng \in RngStates
  /\ op = "__init__"
  /\ args = <<>>
  /\ out = [err |-> "none", calls |-> <<>>, rng |-> rng, rng0 |-> rng]

(***************************************************************************)
(* The methods, one action each.                                           *)
(***************************************************************************)
\* out also keeps rng0, the random state the call started from
Ran(name, a, o) ==
  /\ op' = name
  /\ args' = a
  /\ out' = o @@ [rng0 |-> rng]
  /\ rng' = o.rng
  /\ UNCHANGED <<self, float_type>>

BuildLikelihoodVI ==
  /\ self.cls = "DGP_VI"
  /\ \E start \in BatchStarts(self) :
       Ran("_build_likelihood", <<start>>,
           VI_build_likelihood(self, Batch(self.X, self.minibatch_size, start),
                               Batch(self.Y, self.minibatch_size, start),
                               float_type, rng))

BuildLikelihoodIWVI ==
  /\ self.cls = "DGP_IWVI"
  /\ \E start \in BatchStarts(self) :
       Ran("_build_likelihood", <<start>>,
           IWVI_build_likelihood(self, Batch(self.X, self.minibatch_size, start),
                                 Batch(self.Y, self.minibatch_size, start),
                                 float_type, rng))

\* the predictive methods are called on the training inputs
BuildPredict ==
  \E full_cov \in BOOLEAN :
    Ran("_build_predict", <<self.X, full_cov>>,
        build_predict(self, self.X, full_cov, rng))

BuildPredictDecomp ==
  \E full_cov \in BOOLEAN :
    Ran("_build_predict_decomp", <<self.X, full_cov>>,
        build_predict_decomp(self, self.X, full_cov, rng))

PredictFMultisample ==
  \E S \in 1..MaxSamples :
    Ran("predict_f_multisample", <<self.X, S>>,
        predict_f_multisample(self, self.X, S, rng))

PredictYSamples ==
  \E S \in 1..MaxSamples :
    Ran("predict_y_samples", <<self.X, S>>, predict_y_samples(self, self.X, S, rng))

Next ==
  \/ BuildLikelihoodVI
  \/ BuildLikelihoodIWVI
  \/ BuildPredict
  \/ BuildPredictDecomp
  \/ PredictFMultisample
  \/ PredictYSamples

\* every method, on any stack
Spec == Init /\ [][Next]_vars

ObjectiveNext ==
  \/ BuildLikelihoodVI
  \/ BuildLikelihoodIWVI

\* the training objectives, over data, minibatches and float types
ObjectiveSpec == ObjectiveInit /\ [][ObjectiveNext]_vars


(***************************************************************************)
(* Properties.  They read the last call from op, args and out; the         *)
(* expected layouts and sums are written out index by index.               *)
(***************************************************************************)
NumLayers == Len(self.layers)
IsVI == self.cls = "DGP_VI"
Objective == op = "_build_likelihood"
HasKind(t) == \E i \in 1..NumLayers : self.layers[i].regularizer_type = t

\* the data an objective call read (args[1] is where its minibatch starts)
DataX == Batch(self.X, self.minibatch_size, args[1])
DataY == Batch(self.Y, self.minibatch_size, args[1])
DataN == DataX.shape[1]

\* S replicas of the N rows of t, replica after replica: row i (from 0) is
\* point i mod N of replica i div N
ReplicaMajor(t, S) ==
  [shape |-> <<S * t.shape[1], t.shape[2]>>,
   at |-> [ix \in Indices(<<S * t.shape[1], t.shape[2]>>) |->
             t.at[<<((ix[1] - 1) % t.shape[1]) + 1, ix[2]>>]]]

\* [N, K, D]: K copies of every point, side by side
PointMajor(t, K) ==
  [shape |-> <<t.shape[1], K, t.shape[2]>>,
   at |-> [ix \in Indices(<<t.shape[1], K, t.shape[2]>>) |-> t.at[<<ix[1], ix[3]>>]]]

\* [S, N, D]: S copies of the whole array
SampleMajor(t, S) ==
  [shape |-> <<S, t.shape[1], t.shape[2]>>,
   at |-> [ix \in Indices(<<S, t.shape[1], t.shape[2]>>) |-> t.at[<<ix[2], ix[3]>>]]]

\* the features of a followed by those of b
SideBySide(a, b) ==
  [shape |-> Lead(a.shape) \o <<Last(a.shape) + Last(b.shape)>>,
   at |-> [ix \in Indices(Lead(a.shape) \o <<Last(a.shape) + Last(b.shape)>>) |->
             IF Last(ix) <= Last(a.shape) THEN a.at[ix]
             ELSE b.at[Lead(ix) \o <<Last(ix) - Last(a.shape)>>]]]

\* what the last call handed to propagate
PropagateInput ==
  CASE Objective /\ IsVI -> ReplicaMajor(DataX, self.num_samples)
    [] Objective /\ ~IsVI -> PointMajor(DataX, self.num_samples)
    [] op \in {"_build_predict", "_build_predict_decomp"} -> args[1]
    [] OTHER -> SampleMajor(args[1], args[2])

\* the side information an objective call is to hand to every layer
ObjectiveSideInfo ==
  IF IsVI
  THEN SideBySide(ReplicaMajor(DataX, self.num_samples),
                  ReplicaMajor(DataY, self.num_samples))
  ELSE SideBySide(PointMajor(DataX, self.num_samples),
                  PointMajor(DataY, self.num_samples))

\* propagate ran to its end (no layer raised)
Propagated == op # "__init__" /\ out.err # "shape_mismatch"

\* C1: one call of propagate invokes the layers in construction order, each
\* once; the first receives the caller's input and every later one the sample
\* the layer before it returned; the five returned lists have one entry per
\* layer, entry i being what layer i returned, so the caller's input is not
\* among the samples.
C1_PropagateVisitsLayersInOrder ==
  op # "__init__" =>
    /\ Len(out.calls) >= 1
    /\ Len(out.calls) <= NumLayers
    /\ \A i \in 1..Len(out.calls) : out.calls[i].layer = i
    /\ out.calls[1].input = PropagateInput
    /\ \A i \in 2..Len(out.calls) : out.calls[i].input = out.calls[i - 1].out.sample
    /\ Propagated =>
         /\ Len(out.calls) = NumLayers
         /\ Len(out.prop.samples) = NumLayers
         /\ Len(out.prop.means) = NumLayers
         /\ Len(out.prop.covs) = NumLayers
         /\ Len(out.prop.kls) = NumLayers
         /\ Len(out.prop.kl_types) = NumLayers
         /\ \A i \in 1..NumLayers :
              /\ out.prop.samples[i] = out.calls[i].out.sample
              /\ out.prop.means[i] = out.calls[i].out.mean
              /\ out.prop.covs[i] = out.calls[i].out.cov
              /\ out.prop.kls[i] = out.calls[i].out.kl
              /\ out.prop.kl_types[i] = self.layers[i].regularizer_type

\* a propagation through two layers in which the second layer's input is not
\* the first layer's mean
C1_Witness ==
  /\ Propagated
  /\ NumLayers = 2
  /\ Len(out.prop.samples) = 2
  /\ out.calls[2].input # out.calls[1].out.mean

\* what the layers returned, summed as the properties below sum it: the entries of the
\* LOCAL regularizers at one row, the GLOBAL regularizers, and the expected
\* log-density of a row over the output dimensions
LocalAt(row) ==
  SumTo([i \in 1..NumLayers |->
           IF self.layers[i].regularizer_type = LOCAL_T
           THEN RowSum(out.calls[i].out.kl, row) ELSE 0], NumLayers)

GlobalSum ==
  SumTo([i \in 1..NumLayers |->
           IF self.layers[i].regularizer_type = GLOBAL_T
           THEN out.calls[i].out.kl.at[<<>>] ELSE 0], NumLayers)

VarExpAt(row) == RowSum(out.var_exp, row)

\* the term of sample s and data point n, and its average over the samples
VI_Term(s, n) ==
  VarExpAt(<<(s - 1) * DataN + n>>) - LocalAt(<<(s - 1) * DataN + n>>)

VI_PointAverage(n) ==
  Rat(SumTo([s \in 1..self.num_samples |-> VI_Term(s, n)], self.num_samples),
      self.num_samples)

VI_Formula ==
  RSub(RMul(Rat(self.num_data, DataN),
            RSumTo([n \in 1..DataN |-> VI_PointAverage(n)], DataN)),
       RInt(GlobalSum))

\* C2: DGP_VI._build_likelihood returns
\*   (num_data / N) * SUM_n (1/S) * SUM_s (SUM_d var_exp[s,n,d] - LOCAL[s,n])
\*   - SUM GLOBAL,
\* a linear average over the samples; with S = 1 the scaled sum of the per-point
\* terms minus the GLOBAL regularizers.
C2_VIBoundFormula ==
  (Objective /\ IsVI /\ out.err = "none") => out.ret = VI_Formula

\* two samples, both kinds of regularizer, a minibatch smaller than the data
C2_Witness ==
  /\ Objective /\ IsVI /\ out.err = "none"
  /\ self.num_samples = 2
  /\ HasKind(LOCAL_T) /\ HasKind(GLOBAL_T)
  /\ self.num_data = 2 * DataN
  /\ out.ret = VI_Formula

\* the same objective on a model whose num_data is twice as large, everything
\* else (the batch, the layers, the random state) the same
TwiceTheData == [self EXCEPT !.num_data = 2 * @]
VI_Doubled == VI_build_likelihood(TwiceTheData, DataX, DataY, float_type, out.rng0)
IWVI_Doubled == IWVI_build_likelihood(TwiceTheData, DataX, DataY, float_type, out.rng0)

\* the sum over the data points of the linear parts of the IWVI per-point terms
IWVI_LinSum == RSumTo([n \in 1..DataN |-> out.logp[n].lin], DataN)

\* C3: in both objectives the GLOBAL regularizers are subtracted once and not
\* scaled, the data term is multiplied by num_data / N: the result plus the
\* GLOBAL sum is the scale times the summed per-point terms, and doubling
\* num_data doubles exactly that part.
C3_GlobalUnscaledDataScaled ==
  (Objective /\ out.err = "none") =>
    /\ out.scale = Rat(self.num_data, DataN)
    /\ IF IsVI
       THEN /\ RAdd(out.ret, RInt(GlobalSum))
                 = RMul(out.scale, RSumTo([n \in 1..DataN |-> out.logp.at[<<n>>]], DataN))
            /\ RAdd(VI_Doubled.ret, RInt(GlobalSum))
                 = RMul(RInt(2), RAdd(out.ret, RInt(GlobalSum)))
       ELSE /\ RAdd(out.ret.lin, RInt(GlobalSum)) = RMul(out.scale, IWVI_LinSum)
            /\ out.ret.coef = out.scale
            /\ RAdd(IWVI_Doubled.ret.lin, RInt(GlobalSum))
                 = RMul(RInt(2), RAdd(out.ret.lin, RInt(GlobalSum)))
            /\ IWVI_Doubled.ret.coef = RMul(RInt(2), out.ret.coef)
            /\ IWVI_Doubled.ret.logs = out.ret.logs
            /\ IWVI_Doubled.ret.nlog = out.ret.nlog

\* an importance-weighted bound with a GLOBAL regularizer and a scale above 1
C3_Witness ==
  /\ Objective /\ ~IsVI /\ out.err = "none"
  /\ GlobalSum > 0
  /\ self.num_data > DataN
  /\ IWVI_Doubled.ret.lin # out.ret.lin

\* C4: a stack in which a layer's declared input dimensionality disagrees
\* with the layer before it is rejected when the model is constructed, so no
\* model holds such a stack with a layer of it invoked: propagation is never
\* reached on it.
C4_NoLayerInvokedOnMismatchedStack ==
  StackMismatch(self.layers) => out.calls = <<>>

\* C5: an objective on a stack with no LOCAL layer or no GLOBAL layer raises
\* nothing, and the missing kind counts as zero in the bound.
C5_MissingKindContributesZero ==
  (Objective /\ (~HasKind(LOCAL_T) \/ ~HasKind(GLOBAL_T))) =>
    /\ out.err = "none"
    /\ IF IsVI THEN out.ret = VI_Formula
       ELSE RAdd(out.ret.lin, RInt(GlobalSum)) = RMul(out.scale, IWVI_LinSum)

\* the K terms of data point n, and the largest of them
IWVI_Row(n) == [k \in 1..self.num_samples |-> out.L_NK.at[<<n, k>>]]
IWVI_RowMax(n) ==
  CHOOSE m \in {IWVI_Row(n)[k] : k \in 1..self.num_samples} :
    \A k \in 1..self.num_samples : IWVI_Row(n)[k] <= m

\* C6: the importance-weighted bound reduces the K terms of every data point
\* by a log-sum-exp shifted by the row maximum (no exponent is above 0, the
\* maximum's own exponent 0 is among them, the maximum is added back), then
\* subtracts log K; the per-point values and the result are finite for terms of
\* magnitude 1e6.
C6_LogSumExpShiftedByRowMax ==
  (Objective /\ ~IsVI /\ out.err = "none") =>
    /\ out.ret.cls = "finite"
    /\ \A n \in 1..DataN :
         /\ out.logp[n].cls = "finite"
         /\ out.logp[n].lin = RInt(IWVI_RowMax(n))
         /\ Len(out.logp[n].logs) = 1
         /\ 0 \in DOMAIN out.logp[n].logs[1]
         /\ \A e \in DOMAIN out.logp[n].logs[1] :
              /\ e <= 0
              /\ out.logp[n].logs[1][e]
                   = Cardinality({k \in 1..self.num_samples :
                                    IWVI_Row(n)[k] - IWVI_RowMax(n) = e})
         /\ out.logp[n].nlog = [count |-> 1, arg |-> self.num_samples]

\* terms near +1e6 and near -1e6 in one evaluation
C6_Witness ==
  /\ Objective /\ ~IsVI /\ out.err = "none"
  /\ self.num_samples = 2
  /\ \E n \in 1..DataN, k \in 1..2 : out.L_NK.at[<<n, k>>] >= 900000
  /\ \E n \in 1..DataN, k \in 1..2 : out.L_NK.at[<<n, k>>] <= -900000
  /\ out.ret.cls = "finite"

\* C7: predict_y_samples is reproducible: two calls with the same X and S on
\* the same model (there is no other argument, so no seed that could differ)
\* return the same draws.
C7_SameArgumentsSameDraws ==
  [][(/\ op = "predict_y_samples" /\ op' = "predict_y_samples"
      /\ args' = args
      /\ out.err = "none" /\ out'.err = "none")
     => out'.ret = out.ret]_vars

\* C8: _build_predict propagates once and returns the last layer's sample, mean
\* and covariance; _build_predict_decomp propagates once and returns the last
\* layer's sample and mean and the covariances of all layers in layer order.
C8_PredictReturnsLastLayer ==
  (op \in {"_build_predict", "_build_predict_decomp"} /\ out.err = "none") =>
    /\ Len(out.calls) = NumLayers
    /\ \A i \in 1..NumLayers : out.calls[i].layer = i
    /\ Len(out.ret) = 3
    /\ out.ret[1] = out.calls[NumLayers].out.sample
    /\ out.ret[2] = out.calls[NumLayers].out.mean
    /\ IF op = "_build_predict"
       THEN out.ret[3] = out.calls[NumLayers].out.cov
       ELSE /\ Len(out.ret[3]) = NumLayers
            /\ \A i \in 1..NumLayers : out.ret[3][i] = out.calls[i].out.cov

\* a decomposed prediction through two layers with full covariances
C8_Witness ==
  /\ op = "_build_predict_decomp" /\ out.err = "none"
  /\ NumLayers = 2
  /\ args[2] = TRUE
  /\ Len(out.ret[3]) = 2
  /\ out.ret[3][1] # out.ret[3][2]

\* C9: every layer invocation carries the arguments propagate was given: the
\* VI objective's are full_cov false, sampled regularizer off, the tiled X and
\* Y side by side; the IWVI objective's full_cov true, sampled regularizer on,
\* its tiled X and Y; the predictive methods' the caller's full_cov (false in
\* the multi-sample ones), sampled regularizer off and no side information.
C9_ArgumentsForwardedToEveryLayer ==
  op # "__init__" =>
    \A i \in 1..Len(out.calls) :
      IF Objective
      THEN /\ out.calls[i].full_cov = ~IsVI
           /\ out.calls[i].is_sampled_local_regularizer = ~IsVI
           /\ ~IsNone(out.calls[i].inference_amorization_inputs)
           /\ out.calls[i].inference_amorization_inputs = ObjectiveSideInfo
      ELSE /\ out.calls[i].full_cov
                = (op \in {"_build_predict", "_build_predict_decomp"} /\ args[2])
           /\ out.calls[i].is_sampled_local_regularizer = FALSE
           /\ IsNone(out.calls[i].inference_amorization_inputs)

\* the second layer of an importance-weighted evaluation, called in sampled mode
C9_Witness ==
  /\ Objective /\ ~IsVI
  /\ Len(out.calls) = 2
  /\ out.calls[2].full_cov
  /\ out.calls[2].is_sampled_local_regularizer
  /\ out.calls[2].inference_amorization_inputs = ObjectiveSideInfo

\* C10: in the VI objective row i (from 0) of the tiled X and Y is data point
\* i mod N; the log-density of row i is computed against the target of point
\* i mod N; the reshape puts row i at (i div N, i mod N), before and after the
\* LOCAL regularizers of row i are subtracted; and entry n of logp is the
\* average of column n, the S terms of data point n.
C10_TilingAndReshapeAgree ==
  (Objective /\ IsVI /\ out.err = "none") =>
    /\ out.X_tiled = ReplicaMajor(DataX, self.num_samples)
    /\ out.Y_tiled = ReplicaMajor(DataY, self.num_samples)
    /\ out.L_S_N_0.shape = <<self.num_samples, DataN>>
    /\ out.L_S_N.shape = <<self.num_samples, DataN>>
    /\ \A i \in 0..(self.num_samples * DataN - 1) :
         /\ \A d \in 1..DataY.shape[2] :
              out.var_exp.at[<<i + 1, d>>]
                = LogNorm
                  - (DataY.at[<<(i % DataN) + 1, d>>] - out.calls[NumLayers].out.mean.at[<<i + 1, d>>])
                    * (DataY.at[<<(i % DataN) + 1, d>>] - out.calls[NumLayers].out.mean.at[<<i + 1, d>>])
                  - out.calls[NumLayers].out.cov.at[<<i + 1, d>>]
         /\ out.L_S_N_0.at[<<(i \div DataN) + 1, (i % DataN) + 1>>] = VarExpAt(<<i + 1>>)
         /\ out.L_S_N.at[<<(i \div DataN) + 1, (i % DataN) + 1>>]
              = VarExpAt(<<i + 1>>) - LocalAt(<<i + 1>>)
    /\ \A n \in 1..DataN : out.logp.at[<<n>>] = VI_PointAverage(n)

\* two replicas of two points whose terms differ, with a LOCAL layer
C10_Witness ==
  /\ Objective /\ IsVI /\ out.err = "none"
  /\ self.num_samples = 2 /\ DataN = 2
  /\ HasKind(LOCAL_T)
  /\ out.L_SN.at[<<2>>] # out.L_SN.at[<<3>>]
  /\ out.L_S_N.at[<<2, 1>>] = VarExpAt(<<3>>) - LocalAt(<<3>>)

=============================================================================
